---- MODULE Spec2Model ----
(***************************************************************************)
(* Model of pkg/operator/mon/mon.go: the controller that resolves the      *)
(* persisted cluster identity (initClusterInfo / createMonSecretsAndSave)  *)
(* and starts the monitor pods one after the other (startPods /            *)
(* waitForPodToStart).  Every call to the Kubernetes API is one atomic     *)
(* step of a controller; the API objects (secrets, pods) are shared.       *)
(***************************************************************************)
EXTENDS Integers, Sequences, FiniteSets, TLC

\* ---------------------------------------------------------------- bounds
MaxSize == 2
MaxNodes == 2

\* ------------------------------------------------------------- constants
appName == "mon"
fsidSecretName == "fsid"
monSecretName == "mon-secret"
adminSecretName == "admin-secret"
clusterSecretName == "cluster-name"
rookAdminName == "rook-admin"
MaxAttempts_16 == 15 + 1
MaxAttempts == 15
DefaultSize == 3

Controllers == {"c1", "c2"}
Leader == "c1"

\* fmt.Sprintf("mon%d", i)
MonName(i) == <<"mon", i>>
PodNames == {MonName(i) : i \in 0..MaxSize} \cup {MonName(i) : i \in 0..(DefaultSize - 1)}

\* The platform gives every pod an address of its own when it starts it.
PodIP(n) == <<"10.0.0", n[2]>>

\* ClusterInfo values: the zero value, the ones mon.CreateClusterInfo can
\* generate, and one persisted by an earlier deployment.
NoInfo == [Name |-> "", FSID |-> "", MonitorSecret |-> "", AdminSecret |-> ""]
OldInfo == [Name |-> "rookcluster", FSID |-> "f0", MonitorSecret |-> "m0", AdminSecret |-> "a0"]
GenInfos ==
    { [Name |-> "rookcluster", FSID |-> "f1", MonitorSecret |-> "m1", AdminSecret |-> "a1"],
      [Name |-> "rookcluster", FSID |-> "f2", MonitorSecret |-> "m2", AdminSecret |-> "a2"] }

VARIABLES
    secrets,        \* API server: secret name -> data, for the secrets that exist
    pods,           \* API server: pod name -> [phase, ip], for the pods that exist
    Size,           \* Cluster.Size
    pc,             \* per controller: the call it is about to make
    info,           \* per controller: clusterInfo (Name, FSID, MonitorSecret, AdminSecret)
    monitors,       \* per controller: clusterInfo.Monitors
    antiAffinity,   \* per controller: result of getAntiAffinity
    idx,            \* per controller: index of the range loop over mons
    attempt,        \* per controller: i of the loop in waitForPodToStart
    counts,         \* per controller: [started, alreadyRunning]
    ret,            \* per controller: outcome of the last call
    run,            \* per controller: what the current call has done so far (history)
    monCreated,     \* the identities whose create of the secret "mon" succeeded (history)
    foundInfos,     \* results of the last resolves that found "mon" (history)
    tally           \* whether the history of a call totals its fetches and sleeps

vars == <<secrets, pods, Size, pc, info, monitors, antiAffinity, idx, attempt,
          counts, ret, run, monCreated, foundInfos, tally>>

\* ------------------------------------------------------------ operators
EmptyMap == [x \in {} |-> <<>>]

\* string(secrets.Data[key]): a missing key reads as the empty string
Field(data, key) == IF key \in DOMAIN data THEN data[key] ELSE ""

\* initClusterInfo, the found path: the four fields read back
ReadClusterInfo(data) ==
    [Name          |-> Field(data, clusterSecretName),
     FSID          |-> Field(data, fsidSecretName),
     MonitorSecret |-> Field(data, monSecretName),
     AdminSecret   |-> Field(data, adminSecretName)]

\* createMonSecretsAndSave: the StringData of the secret "mon"
MonSecretData(i) ==
    (clusterSecretName :> i.Name) @@ (fsidSecretName :> i.FSID) @@
    (monSecretName :> i.MonitorSecret) @@ (adminSecretName :> i.AdminSecret)

\* createMonSecretsAndSave: the StringData of the secret "rook-admin"
StorageClassSecret(i) == ("key" :> i.AdminSecret)

\* Secrets.Create as the controller uses it: the secret is stored when the
\* call returns no error, and nothing is stored otherwise.
CreateSecret_overwrite(s, name, data, err) ==
    IF err \in {"", "AlreadyExists"} THEN (name :> data) @@ s ELSE s

CreateSecret(s, name, data, err) == IF err = "" THEN (name :> data) @@ s ELSE s

\* initClusterInfo: k8sutil.IsKubernetesResourceNotFoundError(err)
IsNotFound_any(err) == TRUE

IsNotFound(err) == err = "NotFound"

\* createMonSecretsAndSave: which outcomes of the create of "mon" are fatal
MonCreateFatal_ignored(err) == FALSE

MonCreateFatal_tolerant(err) == err \notin {"", "AlreadyExists"}

MonCreateFatal(err) == err # ""

\* createMonSecretsAndSave: which outcomes of the create of "rook-admin" are fatal
AdminCreateFatal(err) == err \notin {"", "AlreadyExists"}

\* startPods: the error of Pods.Create for the pod name; the API server
\* refuses the name of a pod that exists
PodCreateErr_replace(ps, name, apiErr) == IF apiErr THEN "Other" ELSE ""

PodCreateErr(ps, name, apiErr) ==
    IF apiErr THEN "Other" ELSE IF name \in DOMAIN ps THEN "AlreadyExists" ELSE ""

\* startPods: which outcomes of the create of a pod are fatal
PodCreateFatal_never(err) == FALSE

PodCreateFatal_strict(err) == err # ""

PodCreateFatal(err) == err \notin {"", "AlreadyExists"}

\* mon.ToCephMon(name, ip)
ToCephMon(name, ip) == [Name |-> name, Endpoint |-> <<ip, "mon.Port">>]

\* Start: the list of MonConfig built from Size
Mons_from1(size) == [i \in 1..size |-> MonName(i)]

Mons_extra(size) == [i \in 1..(size + 1) |-> MonName(i - 1)]

Mons(size) == [i \in 1..size |-> MonName(i - 1)]

\* getAntiAffinity: len(nodes.Items) >= c.Size
EnoughNodes_gt(nodes, size) == nodes > size

EnoughNodes(nodes, size) == nodes >= size

\* pollPods: the pods of the cluster by phase, (running, pending)
RunningPods(ps) == {n \in DOMAIN ps : ps[n].phase = "Running"}
PendingPods(ps) == {n \in DOMAIN ps : ps[n].phase = "Pending"}

\* waitForPodToStart: which outcomes of Pods.Get end the wait with an error
GetPodFatal_retry(err) == FALSE

GetPodFatal(err) == err # ""

\* waitForPodToStart: pod.Status.Phase == v1.PodRunning
PodRunning_any(pod) == TRUE

PodRunning(pod) == pod.phase = "Running"

\* startPods: clusterInfo.Monitors after the loop over the running pods
RunningMonitors(ps) == [n \in RunningPods(ps) |-> ToCephMon(n, ps[n].ip)]

\* startPods: len(running) == c.Size
AlreadyRunning_all(ps, size) == Cardinality(RunningPods(ps) \cup PendingPods(ps)) = size

AlreadyRunning(ps, size) == Cardinality(RunningPods(ps)) = size

\* startPods: clusterInfo.Monitors[m.Name] = mon.ToCephMon(m.Name, podIP)
RecordMonitor_stale(ms, name, ip) == (name :> ToCephMon(name, <<>>)) @@ ms

RecordMonitor(ms, name, ip) == (name :> ToCephMon(name, ip)) @@ ms

\* history of one call: the operation called, whether the namespace was empty
\* when it was called, the error of the Secrets.Get of "mon" ("" when it was
\* found), the way initClusterInfo returned, whether mon.CreateClusterInfo
\* was called, the calls to the API
\* server it has made and what they returned (enough: the listing of the nodes
\* returned at least Size nodes; creates: the pods given to Pods.Create, with
\* the flag each was made with and the error the call returned; saves: the
\* secrets given to Secrets.Create and the error each call returned; waited:
\* the pods waitForPodToStart was called for; waitFetches
\* and waitSleeps: the Pods.Get calls and the sleeps of the current
\* waitForPodToStart; fetches and sleeps: those of the whole call, totalled
\* when tally is set; fetchAt and fetchErr: the turn of the loop of
\* waitForPodToStart that made the last Pods.Get, from 1, and the error of
\* that Pods.Get)
NoRun ==
    [op |-> "none", empty |-> FALSE, lookup |-> "none", via |-> "none",
     generated |-> FALSE, writes |-> 0, saves |-> <<>>,
     storeErr |-> FALSE, cause |-> "",
     enough |-> FALSE, listed |-> FALSE, running |-> EmptyMap, existing |-> {},
     creates |-> <<>>, waited |-> {}, fetched |-> FALSE, waitFetches |-> 0, waitSleeps |-> 0,
     fetches |-> 0, sleeps |-> 0, fetchAt |-> 0, fetchErr |-> "",
     observed |-> EmptyMap]

NewRun(op) ==
    [NoRun EXCEPT !.op = op, !.empty = (DOMAIN secrets = {} /\ DOMAIN pods = {})]

\* the history after a Secrets.Create of the secret name that returned err
Saved(r, name, err) ==
    [r EXCEPT !.writes = @ + 1, !.saves = Append(@, [name |-> name, err |-> err])]

\* the API server returned err to the call
Returned(r, err) == IF err = "" THEN r ELSE [r EXCEPT !.storeErr = TRUE]

\* the call fails because of err
Failed(r, err) == [r EXCEPT !.storeErr = (@ \/ err # "Timeout"), !.cause = err]

\* a call returns: the locals of the frames are gone
Return(p, outcome, ci, ms) ==
    /\ pc' = [pc EXCEPT ![p] = "idle"]
    /\ ret' = [ret EXCEPT ![p] = outcome]
    /\ info' = [info EXCEPT ![p] = ci]
    /\ monitors' = [monitors EXCEPT ![p] = ms]
    /\ antiAffinity' = [antiAffinity EXCEPT ![p] = FALSE]
    /\ idx' = [idx EXCEPT ![p] = 0]
    /\ attempt' = [attempt EXCEPT ![p] = 0]
    /\ counts' = [counts EXCEPT ![p] = [started |-> 0, alreadyRunning |-> 0]]

Fail(p, msg) == Return(p, msg, NoInfo, EmptyMap)

\* ----------------------------------------------------------------- Init
\* What initClusterInfo can find in the namespace: nothing, the identity of an
\* earlier deployment with or without its "rook-admin", a "rook-admin" left
\* behind, or a secret "mon" that lacks one of its keys.
SecretsInit ==
    {EmptyMap}
    \cup { (appName :> MonSecretData(OldInfo)) }
    \cup { (appName :> MonSecretData(OldInfo)) @@ (rookAdminName :> StorageClassSecret(OldInfo)) }
    \cup { (rookAdminName :> ("key" :> "stale")) }
    \cup { (appName :> [k \in (DOMAIN MonSecretData(OldInfo)) \ {missing} |-> MonSecretData(OldInfo)[k]])
             : missing \in DOMAIN MonSecretData(OldInfo) }

PodState(n, phase) == [phase |-> phase, ip |-> IF phase = "Running" THEN PodIP(n) ELSE <<>>]

InitCommon ==
    /\ pc = [p \in Controllers |-> "idle"]
    /\ info = [p \in Controllers |-> NoInfo]
    /\ monitors = [p \in Controllers |-> EmptyMap]
    /\ antiAffinity = [p \in Controllers |-> FALSE]
    /\ idx = [p \in Controllers |-> 0]
    /\ attempt = [p \in Controllers |-> 0]
    /\ counts = [p \in Controllers |-> [started |-> 0, alreadyRunning |-> 0]]
    /\ ret = [p \in Controllers |-> "none"]
    /\ run = [p \in Controllers |-> NoRun]
    /\ monCreated = <<>>
    /\ foundInfos = <<>>

\* Any size up to the bound, any pods of the cluster left in the namespace,
\* no secret yet (the first Start makes them, the later ones find them).
Init ==
    /\ InitCommon
    /\ tally = FALSE
    /\ Size \in 0..MaxSize
    /\ secrets = EmptyMap
    /\ \E S \in SUBSET {MonName(i) : i \in 0..MaxSize} :
         \E ph \in [S -> {"Pending", "Running"}] :
            pods = [n \in S |-> PodState(n, ph[n])]

\* ------------------------------------------------- Start / initClusterInfo
\* A caller invokes Start.
Start(p) ==
    /\ pc[p] = "idle"
    /\ pc' = [pc EXCEPT ![p] = "initClusterInfo"]
    /\ ret' = [ret EXCEPT ![p] = "none"]
    /\ info' = [info EXCEPT ![p] = NoInfo]
    /\ monitors' = [monitors EXCEPT ![p] = EmptyMap]
    /\ run' = [run EXCEPT ![p] = NewRun("Start")]
    /\ UNCHANGED <<secrets, pods, Size, tally, antiAffinity, idx, attempt, counts,
                   monCreated, foundInfos>>

\* A caller invokes initClusterInfo on its own.
Resolve(p) ==
    /\ pc[p] = "idle"
    /\ pc' = [pc EXCEPT ![p] = "initClusterInfo"]
    /\ ret' = [ret EXCEPT ![p] = "none"]
    /\ info' = [info EXCEPT ![p] = NoInfo]
    /\ monitors' = [monitors EXCEPT ![p] = EmptyMap]
    /\ run' = [run EXCEPT ![p] = NewRun("initClusterInfo")]
    /\ UNCHANGED <<secrets, pods, Size, tally, antiAffinity, idx, attempt, counts,
                   monCreated, foundInfos>>

\* initClusterInfo returned ci without error: Start goes on to startPods, a
\* direct call returns ci.
Resolved(p, ci) ==
    IF run[p].op = "Start"
    THEN /\ pc' = [pc EXCEPT ![p] = "getAntiAffinity"]
         /\ info' = [info EXCEPT ![p] = ci]
         /\ UNCHANGED <<monitors, antiAffinity, idx, attempt, counts, ret>>
    ELSE Return(p, "ok", ci, EmptyMap)

\* initClusterInfo, the secret "mon" was found: ci is returned at once
Found_republish(p, ci) ==
    /\ pc' = [pc EXCEPT ![p] = "saveAdminSecret"]
    /\ info' = [info EXCEPT ![p] = ci]
    /\ UNCHANGED <<monitors, antiAffinity, idx, attempt, counts, ret>>

Found(p, ci) == Resolved(p, ci)

\* initClusterInfo: Secrets.Get("mon"); NotFound leads to createMonSecretsAndSave
InitClusterInfo(p) ==
    /\ pc[p] = "initClusterInfo"
    /\ \E apiErr \in BOOLEAN :
        LET err == IF apiErr THEN "Other"
                   ELSE IF appName \notin DOMAIN secrets THEN "NotFound" ELSE ""
        IN
        IF err = ""
        THEN /\ Found(p, ReadClusterInfo(secrets[appName]))
             /\ run' = [run EXCEPT ![p].via = "found", ![p].lookup = err]
             /\ foundInfos' = IF Len(foundInfos) < 2
                              THEN Append(foundInfos, ReadClusterInfo(secrets[appName]))
                              ELSE <<foundInfos[2], ReadClusterInfo(secrets[appName])>>
        ELSE IF ~IsNotFound(err)
        THEN /\ Fail(p, "failed to get mon secrets")
             /\ run' = [run EXCEPT ![p] = Failed([@ EXCEPT !.lookup = err], err)]
             /\ UNCHANGED foundInfos
        ELSE /\ pc' = [pc EXCEPT ![p] = "createClusterInfo"]
             /\ run' = [run EXCEPT ![p].via = "generated", ![p].lookup = err]
             /\ UNCHANGED <<info, monitors, antiAffinity, idx, attempt, counts, ret,
                            foundInfos>>
    /\ UNCHANGED <<secrets, pods, Size, tally, monCreated>>

\* createMonSecretsAndSave: mon.CreateClusterInfo
CreateClusterInfo(p) ==
    /\ pc[p] = "createClusterInfo"
    /\ \E genErr \in BOOLEAN, g \in GenInfos :
        IF genErr
        THEN /\ Fail(p, "failed to create mon secrets")
             /\ run' = [run EXCEPT ![p].cause = "Generate", ![p].generated = TRUE]
        ELSE /\ pc' = [pc EXCEPT ![p] = "saveMonSecret"]
             /\ info' = [info EXCEPT ![p] = g]
             /\ run' = [run EXCEPT ![p].generated = TRUE]
             /\ UNCHANGED <<monitors, antiAffinity, idx, attempt, counts, ret>>
    /\ UNCHANGED <<secrets, pods, Size, tally, monCreated, foundInfos>>

\* createMonSecretsAndSave: Secrets.Create of "mon"
SaveMonSecret(p) ==
    /\ pc[p] = "saveMonSecret"
    /\ \E apiErr \in BOOLEAN :
        LET err == IF apiErr THEN "Other"
                   ELSE IF appName \in DOMAIN secrets THEN "AlreadyExists" ELSE ""
        IN
        /\ secrets' = CreateSecret(secrets, appName, MonSecretData(info[p]), err)
        /\ monCreated' = IF err = "" THEN Append(monCreated, info[p]) ELSE monCreated
        /\ foundInfos' = IF secrets' = secrets THEN foundInfos ELSE <<>>
        /\ IF MonCreateFatal(err)
           THEN /\ Fail(p, "failed to save mon secrets")
                /\ run' = [run EXCEPT ![p] = Failed(Saved(@, appName, err), err)]
           ELSE /\ pc' = [pc EXCEPT ![p] = "saveAdminSecret"]
                /\ run' = [run EXCEPT ![p] = Returned(Saved(@, appName, err), err)]
                /\ UNCHANGED <<info, monitors, antiAffinity, idx, attempt, counts, ret>>
    /\ UNCHANGED <<pods, Size, tally>>

\* createMonSecretsAndSave: Secrets.Create of "rook-admin"
SaveAdminSecret(p) ==
    /\ pc[p] = "saveAdminSecret"
    /\ \E apiErr \in BOOLEAN :
        LET err == IF apiErr THEN "Other"
                   ELSE IF rookAdminName \in DOMAIN secrets THEN "AlreadyExists" ELSE ""
        IN
        /\ secrets' = CreateSecret(secrets, rookAdminName, StorageClassSecret(info[p]), err)
        /\ foundInfos' = IF secrets' = secrets THEN foundInfos ELSE <<>>
        /\ IF AdminCreateFatal(err)
           THEN /\ Fail(p, "failed to save rook-admin secret")
                /\ run' = [run EXCEPT ![p] = Failed(Saved(@, rookAdminName, err), err)]
           ELSE /\ Resolved(p, info[p])
                /\ run' = [run EXCEPT ![p] = Returned(Saved(@, rookAdminName, err), err)]
    /\ UNCHANGED <<pods, Size, tally, monCreated>>

\* The process of a controller is killed in the middle of a call.
Kill(p) ==
    /\ pc[p] # "idle"
    /\ Return(p, "killed", NoInfo, EmptyMap)
    /\ run' = [run EXCEPT ![p] = NoRun]
    /\ UNCHANGED <<secrets, pods, Size, tally, monCreated, foundInfos>>

\* ------------------------------------------------------------- startPods
\* startPods: the call of getAntiAffinity (Nodes().List)
GetAntiAffinity(p) ==
    /\ pc[p] = "getAntiAffinity"
    /\ \E apiErr \in BOOLEAN, n \in 0..MaxNodes :
        IF apiErr
        THEN /\ Fail(p, "failed to get antiaffinity")
             /\ run' = [run EXCEPT ![p] = Failed(@, "Other")]
        ELSE /\ pc' = [pc EXCEPT ![p] = "pollPods"]
             /\ antiAffinity' = [antiAffinity EXCEPT ![p] = EnoughNodes(n, Size)]
             /\ run' = [run EXCEPT ![p].enough = (n >= Size)]
             /\ UNCHANGED <<info, monitors, idx, attempt, counts, ret>>
    /\ UNCHANGED <<secrets, pods, Size, tally, monCreated, foundInfos>>

\* startPods: pollPods, the running pods recorded, the short-circuit
PollPods(p) ==
    /\ pc[p] = "pollPods"
    /\ \E apiErr \in BOOLEAN :
        IF apiErr
        THEN /\ Fail(p, "failed to get mon pods")
             /\ run' = [run EXCEPT ![p] = Failed(@, "Other")]
        ELSE /\ run' = [run EXCEPT ![p].listed = TRUE,
                                   ![p].running = [n \in RunningPods(pods) |-> pods[n].ip],
                                   ![p].existing = RunningPods(pods) \cup PendingPods(pods)]
             /\ IF AlreadyRunning(pods, Size) \/ Len(Mons(Size)) = 0
                THEN Return(p, "ok", info[p], RunningMonitors(pods))
                ELSE /\ pc' = [pc EXCEPT ![p] = "createPod"]
                     /\ monitors' = [monitors EXCEPT ![p] = RunningMonitors(pods)]
                     /\ idx' = [idx EXCEPT ![p] = 0]
                     /\ counts' = [counts EXCEPT ![p] = [started |-> 0, alreadyRunning |-> 0]]
                     /\ UNCHANGED <<info, antiAffinity, attempt, ret>>
    /\ UNCHANGED <<secrets, pods, Size, tally, monCreated, foundInfos>>

\* startPods, loop body: makeMonPod and Pods.Create
CreatePod(p) ==
    /\ pc[p] = "createPod"
    /\ LET name == Mons(Size)[idx[p] + 1]
       IN
       \E apiErr \in BOOLEAN :
        LET err == PodCreateErr(pods, name, apiErr)
            made == [name |-> name, antiAffinity |-> antiAffinity[p], err |-> err]
        IN
        /\ pods' = IF err = "" THEN (name :> PodState(name, "Pending")) @@ pods ELSE pods
        /\ IF PodCreateFatal(err)
           THEN /\ Fail(p, "failed to create mon pod")
                /\ run' = [run EXCEPT ![p] = Failed([@ EXCEPT !.creates = Append(@, made)], err)]
           ELSE /\ pc' = [pc EXCEPT ![p] = "waitForPodToStart"]
                /\ attempt' = [attempt EXCEPT ![p] = 0]
                /\ counts' = [counts EXCEPT ![p] =
                                IF err = "" THEN [@ EXCEPT !.started = @ + 1]
                                ELSE [@ EXCEPT !.alreadyRunning = @ + 1]]
                /\ run' = [run EXCEPT ![p] =
                             Returned([@ EXCEPT !.creates = Append(@, made),
                                                !.waited = @ \cup {name},
                                                !.waitFetches = 0, !.waitSleeps = 0,
                                                !.fetchAt = 0, !.fetchErr = ""], err)]
                /\ UNCHANGED <<info, monitors, antiAffinity, idx, ret>>
    /\ UNCHANGED <<secrets, Size, tally, monCreated, foundInfos>>

\* waitForPodToStart, a turn of the loop begins: the delay
WaitForPodToStart(p) ==
    /\ pc[p] = "waitForPodToStart"
    /\ attempt[p] < MaxAttempts
    /\ pc' = [pc EXCEPT ![p] = "getPod"]
    /\ run' = [run EXCEPT ![p].waitSleeps = @ + 1,
                          ![p].sleeps = IF tally THEN @ + 1 ELSE @]
    /\ UNCHANGED <<secrets, pods, Size, tally, info, monitors, antiAffinity, idx, attempt,
                   counts, ret, monCreated, foundInfos>>

\* waitForPodToStart, the turn goes on: Pods.Get and the phase; after the last
\* turn the timeout.  startPods records the address and goes to the next mon.
GetPod(p) ==
    /\ pc[p] = "getPod"
    /\ LET name == Mons(Size)[idx[p] + 1]
       IN
       \E apiErr \in BOOLEAN :
        LET err == IF apiErr THEN "Other"
                   ELSE IF name \notin DOMAIN pods THEN "NotFound" ELSE ""
            polled == [run[p] EXCEPT !.waitFetches = @ + 1, !.fetched = TRUE,
                                 !.fetches = IF tally THEN @ + 1 ELSE @,
                                 !.fetchAt = attempt[p] + 1, !.fetchErr = err]
        IN
        IF GetPodFatal(err)
        THEN /\ Fail(p, "failed to get mon pod")
             /\ run' = [run EXCEPT ![p] = Failed(polled, err)]
        ELSE IF PodRunning(pods[name])
        THEN /\ run' = [run EXCEPT ![p] =
                          [polled EXCEPT !.observed = (name :> pods[name].ip) @@ @]]
             /\ IF idx[p] + 1 < Len(Mons(Size))
                THEN /\ pc' = [pc EXCEPT ![p] = "createPod"]
                     /\ monitors' = [monitors EXCEPT ![p] = RecordMonitor(@, name, pods[name].ip)]
                     /\ idx' = [idx EXCEPT ![p] = @ + 1]
                     /\ attempt' = [attempt EXCEPT ![p] = 0]
                     /\ UNCHANGED <<info, antiAffinity, counts, ret>>
                ELSE Return(p, "ok", info[p], RecordMonitor(monitors[p], name, pods[name].ip))
        ELSE IF attempt[p] + 1 < MaxAttempts
        THEN /\ run' = [run EXCEPT ![p] = polled]
             /\ pc' = [pc EXCEPT ![p] = "waitForPodToStart"]
             /\ attempt' = [attempt EXCEPT ![p] = @ + 1]
             /\ UNCHANGED <<info, monitors, antiAffinity, idx, counts, ret>>
        ELSE /\ run' = [run EXCEPT ![p] = Failed(polled, "Timeout")]
             /\ Fail(p, "timed out waiting for pod")
    /\ UNCHANGED <<secrets, pods, Size, tally, monCreated, foundInfos>>

\* The platform starts a pending pod and gives it its address.
PodStarts(n) ==
    /\ n \in DOMAIN pods
    /\ pods[n].phase = "Pending"
    /\ pods' = [pods EXCEPT ![n] = PodState(n, "Running")]
    /\ UNCHANGED <<secrets, Size, tally, pc, info, monitors, antiAffinity, idx, attempt,
                   counts, ret, run, monCreated, foundInfos>>

\* -------------------------------------------------------- specifications
\* One controller calls Start again and again, for any size up to the bound
\* and any pods left in the namespace; it can be killed at any step.
Next ==
    \/ Start(Leader)
    \/ InitClusterInfo(Leader)
    \/ CreateClusterInfo(Leader)
    \/ SaveMonSecret(Leader)
    \/ SaveAdminSecret(Leader)
    \/ GetAntiAffinity(Leader)
    \/ PollPods(Leader)
    \/ CreatePod(Leader)
    \/ WaitForPodToStart(Leader)
    \/ GetPod(Leader)
    \/ Kill(Leader)
    \/ \E n \in PodNames : PodStarts(n)

Spec == Init /\ [][Next]_vars

\* The controller as New() builds it (Size 3), in an empty namespace.
BootInit ==
    /\ InitCommon
    /\ tally = TRUE
    /\ Size = DefaultSize
    /\ secrets = EmptyMap
    /\ pods = EmptyMap

BootSpec == BootInit /\ [][Next]_vars

\* Two controllers call initClusterInfo in the same namespace, again and
\* again; each can be killed at any step.
ResolveInit ==
    /\ InitCommon
    /\ tally = FALSE
    /\ Size = DefaultSize
    /\ secrets \in SecretsInit
    /\ pods = EmptyMap

ResolveNext ==
    \E p \in Controllers :
        \/ Resolve(p)
        \/ InitClusterInfo(p)
        \/ CreateClusterInfo(p)
        \/ SaveMonSecret(p)
        \/ SaveAdminSecret(p)
        \/ Kill(p)

ResolveSpec == ResolveInit /\ [][ResolveNext]_vars

\* ----------------------------------------------------------------- claims
CallReturned(p) == pc[p] = "idle" /\ ret[p] \notin {"none", "killed"}

CreatedNames(p) == [k \in 1..Len(run[p].creates) |-> run[p].creates[k].name]

\* C1: the resolves that find the secret "mon", one after the other with no
\* change of the secrets in between, return the same four values, and a
\* resolve that finds "mon" issues no create of a secret.
C1_Idempotent ==
    /\ Len(foundInfos) = 2 => foundInfos[1] = foundInfos[2]
    /\ \A p \in Controllers : run[p].via = "found" => run[p].writes = 0

C1_Witness ==
    /\ Len(foundInfos) = 2
    /\ \E p \in Controllers : CallReturned(p) /\ ret[p] = "ok" /\ run[p].via = "found"

\* C2: when controllers race through the first resolve of a namespace, one
\* create of "mon" succeeds, the secret holds the four values of that
\* controller, and every resolve that returns afterwards returns those values.
C2_AtMostOnce ==
    monCreated # <<>> =>
        /\ Len(monCreated) = 1
        /\ appName \in DOMAIN secrets
        /\ DOMAIN secrets[appName] =
              {clusterSecretName, fsidSecretName, monSecretName, adminSecretName}
        /\ secrets[appName][clusterSecretName] = monCreated[1].Name
        /\ secrets[appName][fsidSecretName] = monCreated[1].FSID
        /\ secrets[appName][monSecretName] = monCreated[1].MonitorSecret
        /\ secrets[appName][adminSecretName] = monCreated[1].AdminSecret
        /\ \A p \in Controllers :
              (CallReturned(p) /\ ret[p] = "ok") => info[p] = monCreated[1]

C2_Witness ==
    \E p, q \in Controllers :
        /\ p # q
        /\ ret[p] = "failed to save mon secrets" /\ run[p].cause = "AlreadyExists"
        /\ info[p] = NoInfo
        /\ CallReturned(q) /\ ret[q] = "ok" /\ run[q].via = "found"
        /\ info[q] = monCreated[1]

\* C3: no call fails because a create returned AlreadyExists.
C3_AlreadyExistsNeverFails ==
    \A p \in Controllers : ~(CallReturned(p) /\ ret[p] # "ok" /\ run[p].cause = "AlreadyExists")

MonSecretKept ==
    appName \in DOMAIN secrets =>
        /\ appName \in DOMAIN secrets'
        /\ secrets'[appName] = secrets[appName]
        /\ monCreated' = monCreated

\* C4: once the secret "mon" exists, no step changes its data, removes it or
\* creates it again.
C4_NeverRegenerated == [][MonSecretKept]_vars

C4_Witness ==
    /\ monCreated # <<>>
    /\ \E p, q \in Controllers :
          /\ ret[p] = "killed"
          /\ ret[q] = "failed to save mon secrets" /\ run[q].cause = "AlreadyExists"

\* C5: while the secret "mon" lacks one of its four keys, no resolve returns
\* an identity.
C5_MalformedIsFatal ==
    (/\ appName \in DOMAIN secrets
     /\ DOMAIN secrets[appName] #
           {clusterSecretName, fsidSecretName, monSecretName, adminSecretName})
    => \A p \in Controllers : ~(CallReturned(p) /\ ret[p] = "ok")

\* C6: when the listing of startPods returns no pod, the creates of pods are
\* issued for mon0, mon1, ... in that order, each once, and a Start that
\* succeeds has issued one for each of the Size mons.
C6_Determinism ==
    \A p \in Controllers :
        (run[p].listed /\ run[p].existing = {}) =>
            /\ Len(CreatedNames(p)) <= Size
            /\ \A k \in 1..Len(CreatedNames(p)) : CreatedNames(p)[k] = <<"mon", k - 1>>
            /\ (CallReturned(p) /\ ret[p] = "ok") => Len(CreatedNames(p)) = Size

C6_Witness ==
    \E p \in Controllers :
        /\ run[p].listed /\ run[p].existing = {}
        /\ CallReturned(p) /\ ret[p] = "ok"
        /\ Size >= 2
        /\ CreatedNames(p) = <<(<<"mon", 0>>), (<<"mon", 1>>)>> \o SubSeq(CreatedNames(p), 3, Size)

\* C7: when the listing returns as many running pods as Size, startPods has
\* returned success with no create of a pod and no fetch of a pod, and
\* Monitors holds the listed running pods by name, with their addresses.
C7_ShortCircuit ==
    \A p \in Controllers :
        (run[p].listed /\ Cardinality(DOMAIN run[p].running) = Size) =>
            /\ CallReturned(p) /\ ret[p] = "ok"
            /\ run[p].creates = <<>>
            /\ ~run[p].fetched /\ run[p].waitFetches = 0
            /\ DOMAIN monitors[p] = DOMAIN run[p].running
            /\ \A n \in DOMAIN monitors[p] :
                  /\ monitors[p][n].Name = n
                  /\ monitors[p][n].Endpoint[1] = run[p].running[n]

C7_Witness ==
    \E p \in Controllers :
        /\ run[p].listed /\ Cardinality(DOMAIN run[p].running) = Size
        /\ Size >= 2
        /\ run[p].existing # DOMAIN run[p].running
        /\ ret[p] = "ok"

\* C8: a waitForPodToStart never fetches the pod more than 15 times, has slept
\* once before every fetch, goes on as long as it has fetched less than 15
\* times without seeing the pod running, and times out after exactly 15 fetches.
C8_PollBound ==
    \A p \in Controllers :
        /\ run[p].waitFetches <= 15
        /\ run[p].waitSleeps = run[p].waitFetches + (IF pc[p] = "getPod" THEN 1 ELSE 0)
        /\ pc[p] \in {"waitForPodToStart", "getPod"} => run[p].waitFetches < 15
        /\ ret[p] = "timed out waiting for pod" =>
              /\ run[p].waitFetches = 15
              /\ run[p].cause = "Timeout"
        /\ run[p].cause = "Timeout" => ret[p] = "timed out waiting for pod"

C8_Witness ==
    \E p \in Controllers :
        /\ ret[p] = "timed out waiting for pod"
        /\ run[p].waitFetches = 15 /\ run[p].waitSleeps = 15
        /\ ~run[p].storeErr

\* C9: every pod made in one startPods gets the anti-affinity flag that is
\* true exactly when the nodes listed are at least Size.
C9_Placement ==
    \A p \in Controllers :
        \A k \in 1..Len(run[p].creates) :
            run[p].creates[k].antiAffinity = run[p].enough

C9_Witness ==
    \E p \in Controllers :
        /\ Len(run[p].creates) >= 2
        /\ run[p].enough
        /\ run[p].creates[1].antiAffinity /\ run[p].creates[2].antiAffinity

\* C10: a Start of the controller of New() called in an empty namespace, in
\* which no call to the API server returned an error, the identity was
\* generated and no wait timed out, returns success with Monitors holding
\* exactly mon0, mon1 and mon2, each with the address read by the fetch that
\* saw the pod running.
C10_EndToEnd ==
    \A p \in Controllers :
        (/\ run[p].op = "Start" /\ run[p].empty
         /\ ~run[p].storeErr /\ run[p].cause = ""
         /\ CallReturned(p)) =>
            /\ ret[p] = "ok"
            /\ info[p] \in GenInfos
            /\ DOMAIN monitors[p] = {<<"mon", 0>>, <<"mon", 1>>, <<"mon", 2>>}
            /\ DOMAIN run[p].observed = DOMAIN monitors[p]
            /\ \A n \in DOMAIN monitors[p] :
                  /\ monitors[p][n].Name = n
                  /\ monitors[p][n].Endpoint[1] = run[p].observed[n]

C10_Witness ==
    \E p \in Controllers :
        /\ run[p].op = "Start" /\ run[p].empty /\ ~run[p].storeErr
        /\ CallReturned(p) /\ ret[p] = "ok"
        /\ Cardinality(DOMAIN monitors[p]) = 3
        /\ run[p].waitFetches = 15

\* C11: in the namespace that the controller of New() found empty, every Start
\* that meets no error of the API server other than AlreadyExists, no failure
\* of the generation and no timeout succeeds and returns the four values the
\* secret "mon" holds, whatever earlier Starts did before they failed or were
\* killed; the secret "mon" was created at most once, and the pods are mon0,
\* mon1, mon2 and no other.
C11_RetrySafe ==
    /\ Len(monCreated) <= 1
    /\ DOMAIN pods \subseteq {<<"mon", 0>>, <<"mon", 1>>, <<"mon", 2>>}
    /\ \A p \in Controllers :
          (/\ run[p].op = "Start" /\ CallReturned(p)
           /\ run[p].cause \in {"", "AlreadyExists"}) =>
              /\ ret[p] = "ok"
              /\ appName \in DOMAIN secrets
              /\ info[p].Name = secrets[appName][clusterSecretName]
              /\ info[p].FSID = secrets[appName][fsidSecretName]
              /\ info[p].MonitorSecret = secrets[appName][monSecretName]
              /\ info[p].AdminSecret = secrets[appName][adminSecretName]
              /\ info[p] = monCreated[1]
              /\ DOMAIN pods = {<<"mon", 0>>, <<"mon", 1>>, <<"mon", 2>>}
              /\ DOMAIN monitors[p] = DOMAIN pods

\* a Start that succeeds after one that stopped between the create of "mon" and
\* the create of "rook-admin", and after one that stopped between the creates
\* of the pods
C11_Witness ==
    \E p \in Controllers :
        /\ run[p].op = "Start" /\ CallReturned(p) /\ ret[p] = "ok"
        /\ ~run[p].empty /\ run[p].via = "found"
        /\ rookAdminName \notin DOMAIN secrets
        /\ Len(run[p].creates) = 3
        /\ run[p].creates[1].err = "AlreadyExists"
        /\ run[p].creates[3].err = ""

\* C12: a Start of the controller of New() (Size 3) makes at most 3 * 15
\* Pods.Get calls and at most 3 * 15 sleeps in waitForPodToStart in total,
\* each Pods.Get follows a sleep of its own, and a call that is still waiting
\* has not used the last of them up.
C12_Terminates ==
    \A p \in Controllers :
        run[p].op = "Start" =>
            /\ run[p].fetches <= Size * 15
            /\ run[p].sleeps <= Size * 15
            /\ run[p].sleeps = run[p].fetches + (IF pc[p] = "getPod" THEN 1 ELSE 0)
            /\ pc[p] = "waitForPodToStart" => run[p].fetches < Size * 15

\* a Start that ended after 45 Pods.Get calls and 45 sleeps: mon0 and mon1
\* were seen Running at the last attempt, mon2 never
C12_Witness ==
    \E p \in Controllers :
        /\ run[p].op = "Start" /\ CallReturned(p)
        /\ ret[p] = "timed out waiting for pod"
        /\ run[p].fetches = Size * 15 /\ run[p].sleeps = Size * 15

\* C13: a call issues the create of "rook-admin" only as its second create,
\* after its own create of "mon" returned no error; a call whose create of
\* "mon" returned an error issues no other create.
C13_Ordering ==
    \A p \in Controllers :
        /\ Len(run[p].saves) <= 2
        /\ Len(run[p].saves) >= 1 => run[p].saves[1].name = appName
        /\ Len(run[p].saves) = 2 =>
              /\ run[p].saves[1].err = ""
              /\ run[p].saves[2].name = rookAdminName
        /\ pc[p] = "saveAdminSecret" =>
              run[p].saves = <<[name |-> appName, err |-> ""]>>

\* one controller has created "mon" and then "rook-admin"; the other has seen
\* its create of "mon" fail and has returned with that one create
C13_Witness ==
    \E p, q \in Controllers :
        /\ CallReturned(p) /\ Len(run[p].saves) = 2 /\ run[p].saves[2].err = ""
        /\ CallReturned(q) /\ Len(run[q].saves) = 1
        /\ run[q].saves[1].err = "AlreadyExists"

\* startPods went past the short-circuit: the pods were listed, and the
\* number of running pods was not Size
Launching(p) ==
    /\ run[p].op = "Start" /\ run[p].listed
    /\ Cardinality(DOMAIN run[p].running) # Size
    /\ Size > 0

\* C14 as stated: no Pods.Create is issued for a mon whose pod was listed as
\* running
C14_OnlyMissing ==
    \A p \in Controllers :
        \A k \in 1..Len(run[p].creates) :
            run[p].creates[k].name \notin DOMAIN run[p].running

\* C14, amended: a startPods that goes past the short-circuit issues the
\* Pods.Create of every mon in order, the mons whose pod was listed as running
\* included; for those the create returns an error (AlreadyExists unless the
\* API server fails), the pod is left as it is, and AlreadyExists is followed by
\* the wait for that pod like a create that succeeded.
C14_EverySpec ==
    \A p \in Controllers :
        /\ \A k \in 1..Len(run[p].creates) :
              /\ run[p].creates[k].name = MonName(k - 1)
              /\ run[p].creates[k].name \in DOMAIN run[p].running =>
                    /\ run[p].creates[k].err \in {"AlreadyExists", "Other"}
                    /\ pods[MonName(k - 1)].phase = "Running"
                    /\ pods[MonName(k - 1)].ip = run[p].running[MonName(k - 1)]
              /\ (k < Len(run[p].creates) \/ (CallReturned(p) /\ ret[p] = "ok")) =>
                    /\ run[p].creates[k].err \in {"", "AlreadyExists"}
                    /\ MonName(k - 1) \in DOMAIN run[p].observed
        /\ (Launching(p) /\ pc[p] = "createPod") => Len(run[p].creates) = idx[p]
        /\ (Launching(p) /\ CallReturned(p) /\ ret[p] = "ok") =>
              Len(run[p].creates) = Size

\* a startPods that found mon0 running and mon1 missing has issued the create
\* of mon0, was told AlreadyExists, waited for mon0 and went on to mon1
C14_Witness ==
    \E p \in Controllers :
        /\ Launching(p) /\ CallReturned(p) /\ ret[p] = "ok"
        /\ Size = 2
        /\ DOMAIN run[p].running = {MonName(0)}
        /\ run[p].creates[1] = [name |-> MonName(0), antiAffinity |-> run[p].enough,
                                err |-> "AlreadyExists"]
        /\ run[p].creates[2].err = ""
        /\ DOMAIN run[p].observed = {MonName(0), MonName(1)}

\* what a step of the call of p does to the pods it has asked for: a
\* Pods.Create is issued only by the loop of startPods, and after the first
\* only when the wait for the pod of the create before it has returned that
\* pod's address, the pod being Running; a wait that fails ends the call with
\* the error and without another create.
SequentialStep(p) ==
    LET n == Len(run[p].creates)
    IN
    /\ Len(run'[p].creates) > n =>
          /\ pc[p] = "createPod"
          /\ Len(run'[p].creates) = n + 1
          /\ run'[p].creates[n + 1].name = MonName(n)
          /\ n >= 1 =>
                /\ run[p].creates[n].name \in DOMAIN run[p].observed
                /\ pods[run[p].creates[n].name].phase = "Running"
    /\ (pc[p] = "getPod" /\ run'[p].cause # "") =>
          /\ pc'[p] = "idle"
          /\ ret'[p] \in {"failed to get mon pod", "timed out waiting for pod"}
          /\ run'[p].creates = run[p].creates
          /\ run[p].creates[n].name \notin DOMAIN run'[p].observed
    /\ (pc[p] = "idle" /\ pc'[p] = "idle") => run'[p].creates = run[p].creates

\* C15: the pods are launched one after the other: the Pods.Create of mon i+1
\* is issued only after waitForPodToStart has returned the address of mon i,
\* and a wait that fails, by timeout or by the error of a Pods.Get, ends
\* startPods before any later create.
C15_Sequential == [][\A p \in Controllers : SequentialStep(p)]_vars

\* a call that created mon0, waited until it ran, created mon1 and gave up
\* waiting for it, with mon2 never asked for
C15_Witness ==
    \E p \in Controllers :
        /\ CallReturned(p) /\ ret[p] = "timed out waiting for pod"
        /\ Size = 3
        /\ Len(run[p].creates) = 2
        /\ run[p].creates[1].err = "" /\ run[p].creates[2].err = ""
        /\ DOMAIN run[p].observed = {MonName(0)}
        /\ MonName(2) \notin DOMAIN pods

\* C16: a Pods.Create that returns an error other than AlreadyExists is the
\* last call of startPods: the call returns "failed to create mon pod" at once,
\* without a wait for that pod and without a create for a later mon, and the
\* pods it created or found for the mons before are still there.
C16_CreateFailureAborts ==
    \A p \in Controllers :
        \A k \in 1..Len(run[p].creates) :
            /\ run[p].creates[k].err \notin {"", "AlreadyExists"} =>
                  /\ k = Len(run[p].creates)
                  /\ CallReturned(p) /\ ret[p] = "failed to create mon pod"
                  /\ run[p].creates[k].name \notin run[p].waited
                  /\ run[p].creates[k].name \notin DOMAIN run[p].observed
                  /\ \A j \in 1..(k - 1) :
                        /\ run[p].creates[j].name \in DOMAIN pods
                        /\ run[p].creates[j].name \in run[p].waited
            /\ run[p].creates[k].err \in {"", "AlreadyExists"} =>
                  run[p].creates[k].name \in run[p].waited

\* the create of mon1 failed after mon0 was created and seen Running: the call
\* has returned the error, mon0 exists, mon1 was not waited for
C16_Witness ==
    \E p \in Controllers :
        /\ CallReturned(p) /\ ret[p] = "failed to create mon pod"
        /\ Size = 2
        /\ Len(run[p].creates) = 2
        /\ run[p].creates[1].err = "" /\ run[p].creates[2].err = "Other"
        /\ run[p].waited = {MonName(0)}
        /\ MonName(0) \in DOMAIN pods /\ MonName(1) \notin DOMAIN pods

\* C17: every turn of the loop of waitForPodToStart makes one Pods.Get, so
\* the Pods.Get of turn k is the k-th of the wait; when it returns an error
\* the wait is over: the call has returned "failed to get mon pod" and not
\* the timeout, with k fetches and k sleeps and none after, whatever k is.
C17_FailFast ==
    \A p \in Controllers :
        /\ run[p].waitFetches = run[p].fetchAt
        /\ run[p].fetchErr # "" =>
              /\ CallReturned(p)
              /\ ret[p] = "failed to get mon pod"
              /\ run[p].cause = run[p].fetchErr
              /\ run[p].waitSleeps = run[p].fetchAt
              /\ run[p].fetchAt \in 1..15
              /\ run[p].creates[Len(run[p].creates)].name \notin DOMAIN run[p].observed

\* the Pods.Get of the last turn, the 15th, returned an error: the call has
\* returned that error, not the timeout
C17_Witness ==
    \E p \in Controllers :
        /\ CallReturned(p) /\ ret[p] = "failed to get mon pod"
        /\ run[p].fetchErr = "Other"
        /\ run[p].fetchAt = 15 /\ run[p].waitFetches = 15

\* C18: a call generates an identity and issues creates of secrets only after
\* its Secrets.Get of "mon" returned NotFound; when the Secrets.Get returned
\* another error the call has returned "failed to get mon secrets" with no
\* identity, having generated nothing and created nothing.
C18_OnlyNotFoundBootstraps ==
    \A p \in Controllers :
        /\ (\/ pc[p] \in {"createClusterInfo", "saveMonSecret", "saveAdminSecret"}
            \/ run[p].generated
            \/ Len(run[p].saves) > 0
            \/ run[p].via = "generated") => run[p].lookup = "NotFound"
        /\ run[p].lookup \notin {"none", "", "NotFound"} =>
              /\ CallReturned(p)
              /\ ret[p] = "failed to get mon secrets"
              /\ info[p] = NoInfo
              /\ ~run[p].generated
              /\ run[p].saves = <<>> /\ run[p].writes = 0

\* in a namespace without the secret "mon" one call was refused its
\* Secrets.Get and has returned the error, the other was told NotFound and has
\* created the secret
C18_Witness ==
    \E p, q \in Controllers :
        /\ CallReturned(p) /\ run[p].lookup = "Other" /\ run[p].empty
        /\ CallReturned(q) /\ run[q].lookup = "NotFound" /\ ret[q] = "ok"
        /\ Len(run[q].saves) = 2

\* the secret "mon" exists and holds the four values
WellFormed(s) ==
    /\ appName \in DOMAIN s
    /\ DOMAIN s[appName] = {clusterSecretName, fsidSecretName, monSecretName, adminSecretName}

\* C19: after an initClusterInfo that returned without error the secret
\* "rook-admin" exists, and whenever "mon" and "rook-admin" both exist the key
\* of "rook-admin" is the admin secret that "mon" holds ("mon" holding its four
\* values).
C19_AdminCredential ==
    /\ \A p \in Controllers :
          (/\ run[p].op = "initClusterInfo" /\ CallReturned(p) /\ ret[p] = "ok"
           /\ WellFormed(secrets)) => rookAdminName \in DOMAIN secrets
    /\ (WellFormed(secrets) /\ rookAdminName \in DOMAIN secrets) =>
          secrets[rookAdminName]["key"] = secrets[appName][adminSecretName]

\* C20: after a Start that returned without error, whatever pods existed
\* before, clusterInfo.Monitors has one entry for each of mon0..mon(Size-1)
\* and no other entry.
C20_ExactMonitors ==
    \A p \in Controllers :
        (run[p].op = "Start" /\ CallReturned(p) /\ ret[p] = "ok") =>
            DOMAIN monitors[p] = {MonName(i) : i \in 0..(Size - 1)}
====
